---- MODULE Spec2Model ----
(***************************************************************************)
(* Session handler of the Wyoming ASR server (NemoAsrEventHandler).        *)
(*                                                                         *)
(* Two variants of the handler exist in the repository:                    *)
(*   "onnx"  src/wyoming_onnx_asr/handler.py  (model registry, languages)  *)
(*   "nemo"  src/wyoming_nemo_asr/handler.py  (one model, always "en")     *)
(* A server process runs one of them; `variant` is fixed by Init.          *)
(*                                                                         *)
(* Scheduling: every session is an asyncio task on one event loop.  A      *)
(* handler runs without interruption from one suspension point to the      *)
(* next.  The suspension points of handle_event are `await write_event`    *)
(* and `async with model_lock` when the lock is taken.  model.recognize    *)
(* is an ordinary (synchronous) call: while it runs the event loop is      *)
(* blocked and no other session takes a step.                              *)
(*                                                                         *)
(* Client writes are assumed to succeed; the decoded sample values are     *)
(* kept as integers (the float32 scaling of sf.read is a fixed factor).    *)
(***************************************************************************)
EXTENDS Integers, Sequences, FiniteSets, TLC

\* ---------------------------------------------------------------- bounds
\* Largest number of AudioChunk events accepted between two AudioStop events.
MaxChunks == 2

\* ------------------------------------------------------------ value sets
Sessions == {"s1", "s2"}

\* Python's None for Optional[str] fields.
NoneVal == "<None>"

\* Language values a Transcribe event may carry (besides None).
Languages == {"", "en", "fr"}

\* Inputs enumerated per session: the first client sends every kind of event,
\* every language and two kinds of chunk; the second client only streams
\* audio (chunks and stops) in one format, with a payload of its own.
FullClients == {"s1"}

TranscribeLanguages(s) ==
    IF s \in FullClients THEN Languages \cup {NoneVal} ELSE {}

\* Model registries the server may be started with (sets of keys).
Registries == (SUBSET {"en", "multi"}) \cup { {"fr"} }

\* AudioChunk events a client may send: the announced format (16 kHz mono or
\* 8 kHz stereo, 16-bit samples) and the payload as a sequence of samples (a
\* whole number of frames in either format).
Chunks(s) ==
    IF s \in FullClients
    THEN { [fmt |-> [rate |-> 16000, width |-> 2, channels |-> 1], audio |-> <<2, 4>>],
           [fmt |-> [rate |-> 8000, width |-> 2, channels |-> 2], audio |-> <<6, 8>>] }
    ELSE { [fmt |-> [rate |-> 8000, width |-> 2, channels |-> 2], audio |-> <<10, 12>>] }

\* Strings a model may return from recognize.
Texts == { <<"hello world">>, <<>> }

\* Messages of the exceptions a model may raise from recognize.
Failures == { "boom" }

\* Static descriptor the server is configured with.
wyoming_info == "info"

\* --------------------------------------------------------------- helpers
\* Optional values are encoded as sequences: <<>> is None, <<x>> is x.
Some(x) == <<x>>

RECURSIVE Concat(_)
\* Concatenation of a sequence of sequences, in order.
Concat(ss) == IF ss = <<>> THEN <<>> ELSE Head(ss) \o Concat(Tail(ss))

\* Python truthiness of an Optional[str]: None and "" are falsy.
Truthy(x) == x # NoneVal /\ x # ""

\* Events read from the client.

\* Events written to the client.  A text is a sequence of tokens, so that a
\* prefix is a first token.
Transcript(text) == [type |-> "transcript", text |-> text]
wyoming_info_event == [type |-> "info", text |-> <<wyoming_info>>]

\* f"ERROR: {error_msg}"
ErrorText(error_msg) == <<"ERROR:">> \o error_msg

IsErrorText(text) == Len(text) > 0 /\ text[1] = "ERROR:"

\* Error message of the no-model branch.
NoModelMsg(request_language, keys) ==
    IF Truthy(request_language)
    THEN <<"Language", request_language, "is not supported. Available models:", keys>>
    ELSE <<"No ASR model is available for transcription">>

\* f"Transcription failed: {str(e)}"
FailedMsg(e) == <<"Transcription failed:", e>>

\* lang = self.request_language or "en"
EffectiveLang(request_language) ==
    IF Truthy(request_language) THEN request_language ELSE "en"

\* A choice that always prefers "en" (for comparison with SelectModel).
SelectModelEnFirst(lang, keys) ==
    IF "en" \in keys THEN "en"
    ELSE IF "multi" \in keys THEN "multi"
    ELSE NoneVal

\* A choice that first looks the language up as a registry key (for
\* comparison with SelectModel).
SelectModelByKey(lang, keys) ==
    IF lang \in keys THEN lang
    ELSE IF "multi" \in keys THEN "multi"
    ELSE IF "en" \in keys THEN "en"
    ELSE NoneVal

\* The if / elif / elif chain choosing the model; NoneVal when none matches.
SelectModel(lang, keys) ==
    IF lang = "en" /\ "en" \in keys THEN "en"
    ELSE IF "multi" \in keys THEN "multi"
    ELSE IF "en" \in keys THEN "en"
    ELSE NoneVal

\* wave.open(path, "wb") followed by the three setters: a new, empty file
\* with the first chunk's parameters replaces whatever was at the path.
OpenSinkAppend(disk, fmt) ==
    IF disk = <<>> THEN Some([fmt |-> fmt, data |-> <<>>])
    ELSE Some([fmt |-> fmt, data |-> disk[1].data])
OpenSink(disk, fmt) == Some([fmt |-> fmt, data |-> <<>>])

\* writeframes(chunk.audio): the bytes go to the end of the file.
WriteFrames(disk, audio) == Some([disk[1] EXCEPT !.data = @ \o audio])

\* sf.read(path): the frames of the file, each frame one sample per channel
\* of the file's header, and the header's sample rate.
SfRead(disk) ==
    LET ch == disk[1].fmt.channels
        data == disk[1].data
    IN  [frames |-> [i \in 1..(Len(data) \div ch) |->
                        [k \in 1..ch |-> data[(i - 1) * ch + k]]],
         sample_rate |-> disk[1].fmt.rate]

RECURSIVE SumSeq(_)
SumSeq(q) == IF q = <<>> THEN 0 ELSE Head(q) + SumSeq(Tail(q))

\* np.mean(waveform, axis=1) when the file has more than one channel.
Mono(frames) ==
    [i \in 1..Len(frames) |->
        IF Len(frames[i]) > 1 THEN SumSeq(frames[i]) \div Len(frames[i])
        ELSE frames[i][1]]

\* asyncio.Lock.acquire returns at once iff the lock is not taken.
CanAcquireUnchecked(locked) == TRUE
CanAcquire(locked) == ~locked

\* -------------------------------------------------------------- state
VARIABLES
    variant,            \* which handler module the server runs
    models,             \* keys of the model registry (onnx variant)
    model_lock,         \* asyncio.Lock: TRUE while taken
    pc,                 \* where each session's handler is suspended
    event,              \* event.type of the current / latest call ("none": no call yet)
    request_language,   \* self.request_language
    wav_file,           \* self._wav_file: <<>> or the open writer's params
    wav_disk,           \* the file at self._wav_path: <<>> or [fmt, data]
    wav_dir,            \* self._wav_dir: <<>> or the temporary directory
    frame,              \* locals of the running AudioStop branch
    written,            \* events written by the current / latest call
    ret,                \* outcome of the current / latest call
    call,               \* the model's record of the recognize call made
    heard,              \* chunks (format, payload) received since the last AudioStop
    hint                \* Transcribe languages received since the last AudioStop

vars == <<variant, models, model_lock, pc, event, request_language, wav_file,
          wav_disk, wav_dir, frame, written, ret, call, heard, hint>>

NoFrame == [frames |-> <<>>, waveform |-> <<>>, sample_rate |-> 0,
            lang |-> NoneVal, model |-> NoneVal]
NoCall == [model |-> NoneVal, samples |-> <<>>, sample_rate |-> 0,
           language |-> NoneVal, result |-> "none", text |-> <<>>]

\* Sessions suspended inside `async with self.model_lock`, i.e. holding it.
Holders == { s \in Sessions : pc[s] \in {"recognizing", "write_error"} }

\* The event loop can run a handler step: no recognize call is blocking it.
LoopFree == \A t \in Sessions : pc[t] # "recognizing"

Init ==
    /\ \/ variant = "onnx" /\ models \in Registries
       \/ variant = "nemo" /\ models = {}
    /\ model_lock = FALSE
    /\ pc = [s \in Sessions |-> "idle"]
    /\ event = [s \in Sessions |-> "none"]
    /\ request_language = [s \in Sessions |-> NoneVal]
    /\ wav_file = [s \in Sessions |-> <<>>]
    /\ wav_disk = [s \in Sessions |-> <<>>]
    /\ wav_dir = [s \in Sessions |-> Some("tmp")]
    /\ frame = [s \in Sessions |-> NoFrame]
    /\ written = [s \in Sessions |-> <<>>]
    /\ ret = [s \in Sessions |-> "none"]
    /\ call = [s \in Sessions |-> NoCall]
    /\ heard = [s \in Sessions |-> <<>>]
    /\ hint = [s \in Sessions |-> <<>>]

\* A session's handler is entered with event e.  Events are delivered during
\* the lifetime of the session, which close() ends.
Enter(s, e) ==
    /\ pc[s] = "idle"
    /\ LoopFree
    /\ wav_dir[s] # <<>>
    /\ event' = [event EXCEPT ![s] = e]

\* Bookkeeping when the AudioStop branch (entered with an open sink) is left:
\* the next utterance starts.
EndUtterance(s) ==
    /\ heard' = [heard EXCEPT ![s] = <<>>]
    /\ hint' = [hint EXCEPT ![s] = <<>>]

\* handle_event returns or raises: its locals go out of scope.
Leave(s, outcome) ==
    /\ pc' = [pc EXCEPT ![s] = "idle"]
    /\ ret' = [ret EXCEPT ![s] = outcome]
    /\ frame' = [frame EXCEPT ![s] = NoFrame]

\* ------------------------------------------------------------ AudioChunk
\* A sink re-configured by every chunk (for comparison with ChunkHandle).
ChunkHandleReconfigure(handle, fmt) == Some(fmt)

\* if self._wav_file is None: open the sink with this chunk's rate, width and
\* channels; an open sink is kept as it is.
ChunkHandle(handle, fmt) == IF handle = <<>> THEN Some(fmt) ELSE handle

\* A chunk branch writing to one file shared by all sessions (for comparison
\* with AudioChunkEvent).
AudioChunkEventSharedPath(s, fmt, audio) ==
    /\ Enter(s, "audio-chunk")
    /\ Len(heard[s]) < MaxChunks
    /\ wav_file' = [wav_file EXCEPT ![s] = ChunkHandle(@, fmt)]
    /\ wav_disk' = [t \in Sessions |->
                      WriteFrames(IF wav_file[s] = <<>> THEN OpenSink(wav_disk[s], fmt)
                                  ELSE wav_disk[s],
                                  audio)]
    /\ heard' = [heard EXCEPT ![s] = Append(@, [fmt |-> fmt, audio |-> audio])]
    /\ written' = [written EXCEPT ![s] = <<>>]
    /\ ret' = [ret EXCEPT ![s] = "True"]
    /\ call' = [call EXCEPT ![s] = NoCall]
    /\ frame' = [frame EXCEPT ![s] = NoFrame]
    /\ UNCHANGED <<wav_dir, variant, models, model_lock, pc, request_language, hint>>

\* A chunk branch that would run only with the lock free (for comparison
\* with AudioChunkEvent).
AudioChunkEventUnderLock(s, fmt, audio) ==
    /\ Enter(s, "audio-chunk")
    /\ ~model_lock
    /\ Len(heard[s]) < MaxChunks
    /\ wav_file' = [wav_file EXCEPT ![s] = ChunkHandle(@, fmt)]
    /\ wav_disk' = [wav_disk EXCEPT ![s] =
                      WriteFrames(IF wav_file[s] = <<>> THEN OpenSink(@, fmt) ELSE @,
                                  audio)]
    /\ heard' = [heard EXCEPT ![s] = Append(@, [fmt |-> fmt, audio |-> audio])]
    /\ written' = [written EXCEPT ![s] = <<>>]
    /\ ret' = [ret EXCEPT ![s] = "True"]
    /\ call' = [call EXCEPT ![s] = NoCall]
    /\ frame' = [frame EXCEPT ![s] = NoFrame]
    /\ UNCHANGED <<wav_dir, variant, models, model_lock, pc, request_language, hint>>

\* if AudioChunk.is_type(event.type): open the sink on the first chunk,
\* append the chunk's audio, return True.
AudioChunkEvent(s, fmt, audio) ==
    /\ Enter(s, "audio-chunk")
    /\ Len(heard[s]) < MaxChunks
    /\ wav_file' = [wav_file EXCEPT ![s] = ChunkHandle(@, fmt)]
    /\ wav_disk' = [wav_disk EXCEPT ![s] =
                      WriteFrames(IF wav_file[s] = <<>> THEN OpenSink(@, fmt) ELSE @,
                                  audio)]
    /\ heard' = [heard EXCEPT ![s] = Append(@, [fmt |-> fmt, audio |-> audio])]
    /\ written' = [written EXCEPT ![s] = <<>>]
    /\ ret' = [ret EXCEPT ![s] = "True"]
    /\ call' = [call EXCEPT ![s] = NoCall]
    /\ frame' = [frame EXCEPT ![s] = NoFrame]
    /\ UNCHANGED <<wav_dir, variant, models, model_lock, pc, request_language, hint>>

\* ------------------------------------------------------------ Transcribe
\* onnx: self.request_language = transcribe.language; nemo: nothing kept.
RecordLanguage(old, language) == language

TranscribeEvent(s, language) ==
    /\ Enter(s, "transcribe")
    /\ request_language' = [request_language EXCEPT ![s] =
                              IF variant = "onnx" THEN RecordLanguage(@, language) ELSE @]
    /\ hint' = [hint EXCEPT ![s] = Some(language)]
    /\ written' = [written EXCEPT ![s] = <<>>]
    /\ ret' = [ret EXCEPT ![s] = "True"]
    /\ call' = [call EXCEPT ![s] = NoCall]
    /\ frame' = [frame EXCEPT ![s] = NoFrame]
    /\ UNCHANGED <<wav_dir, variant, models, model_lock, pc, wav_file, wav_disk, heard>>

\* -------------------------------------------------------------- Describe
\* await self.write_event(self.wyoming_info_event): the handler is suspended
\* in the write.
DescribeEventClearsLanguage(s) ==
    /\ Enter(s, "describe")
    /\ written' = [written EXCEPT ![s] = <<wyoming_info_event>>]
    /\ request_language' = [request_language EXCEPT ![s] = NoneVal]
    /\ pc' = [pc EXCEPT ![s] = "write_info"]
    /\ ret' = [ret EXCEPT ![s] = "pending"]
    /\ call' = [call EXCEPT ![s] = NoCall]
    /\ frame' = [frame EXCEPT ![s] = NoFrame]
    /\ UNCHANGED <<wav_dir, variant, models, model_lock, wav_file, wav_disk, heard, hint>>

DescribeEvent(s) ==
    /\ Enter(s, "describe")
    /\ written' = [written EXCEPT ![s] = <<wyoming_info_event>>]
    /\ pc' = [pc EXCEPT ![s] = "write_info"]
    /\ ret' = [ret EXCEPT ![s] = "pending"]
    /\ call' = [call EXCEPT ![s] = NoCall]
    /\ frame' = [frame EXCEPT ![s] = NoFrame]
    /\ UNCHANGED <<wav_dir, variant, models, model_lock, request_language, wav_file,
                   wav_disk, heard, hint>>

\* The write completed: return True.
DescribeReturn(s) ==
    /\ pc[s] = "write_info"
    /\ LoopFree
    /\ Leave(s, "True")
    /\ UNCHANGED <<wav_dir, variant, models, model_lock, event, request_language, wav_file,
                   wav_disk, written, call, heard, hint>>

\* Any other event type: the final `return True`.
OtherEvent(s) ==
    /\ Enter(s, "other")
    /\ written' = [written EXCEPT ![s] = <<>>]
    /\ ret' = [ret EXCEPT ![s] = "True"]
    /\ call' = [call EXCEPT ![s] = NoCall]
    /\ frame' = [frame EXCEPT ![s] = NoFrame]
    /\ UNCHANGED <<wav_dir, variant, models, model_lock, pc, request_language, wav_file,
                   wav_disk, heard, hint>>

\* ------------------------------------------------------------- AudioStop
\* Exceptions leaving handle_event when AudioStop finds self._wav_file None:
\* the assert raises AssertionError; with assertions compiled out (python -O)
\* the next line, None.close(), raises AttributeError.
NoSinkErrors == {"AssertionError", "AttributeError"}

\* AudioStop with no open sink: the exception propagates to the caller.
AudioStopNoSink(s, err) ==
    /\ Enter(s, "audio-stop")
    /\ wav_file[s] = <<>>
    /\ err \in NoSinkErrors
    /\ ret' = [ret EXCEPT ![s] = err]
    /\ written' = [written EXCEPT ![s] = <<>>]
    /\ call' = [call EXCEPT ![s] = NoCall]
    /\ frame' = [frame EXCEPT ![s] = NoFrame]
    /\ UNCHANGED <<wav_dir, variant, models, model_lock, pc, request_language, wav_file,
                   wav_disk, heard, hint>>

\* Locals of the AudioStop branch up to the model choice: the sink is closed
\* and read back, down-mixed, and language and model are decided.
StopFrame(s) ==
    LET rd == SfRead(wav_disk[s])
        lang == IF variant = "onnx" THEN EffectiveLang(request_language[s]) ELSE "en"
    IN  [frames |-> rd.frames,
         waveform |-> Mono(rd.frames),
         sample_rate |-> rd.sample_rate,
         lang |-> lang,
         model |-> IF variant = "onnx" THEN SelectModel(lang, models) ELSE "model"]

\* A call that gives the "en" model the language "en" whatever was requested
\* (for comparison with Recognize).
RecognizeModelLanguage(f) ==
    [model |-> f.model, samples |-> f.waveform, sample_rate |-> f.sample_rate,
     language |-> IF f.model = "en" THEN "en" ELSE f.lang,
     result |-> "running", text |-> <<>>]

\* model.recognize(waveform, sample_rate=..., language=lang) is entered.
Recognize(f) ==
    [model |-> f.model, samples |-> f.waveform, sample_rate |-> f.sample_rate,
     language |-> f.lang, result |-> "running", text |-> <<>>]

\* A close that leaves the handle set (for comparison with CloseSink).
CloseSinkKeepsHandle(handle) == handle

\* self._wav_file.close(); self._wav_file = None
CloseSink(handle) == <<>>

\* AudioStop with an open sink, up to the first suspension point: either the
\* no-model error is being written, or the lock is taken and recognize is
\* running, or the handler waits for the lock.
AudioStopEvent(s) ==
    /\ Enter(s, "audio-stop")
    /\ wav_file[s] # <<>>
    /\ wav_file' = [wav_file EXCEPT ![s] = CloseSink(@)]
    /\ LET f == StopFrame(s) IN
        /\ frame' = [frame EXCEPT ![s] = f]
        /\ ret' = [ret EXCEPT ![s] = "pending"]
        /\ IF f.model = NoneVal
           THEN /\ written' = [written EXCEPT ![s] =
                       <<Transcript(ErrorText(NoModelMsg(request_language[s], models)))>>]
                /\ pc' = [pc EXCEPT ![s] = "write_nomodel"]
                /\ call' = [call EXCEPT ![s] = NoCall]
                /\ UNCHANGED model_lock
           ELSE IF CanAcquire(model_lock)
           THEN /\ model_lock' = TRUE
                /\ pc' = [pc EXCEPT ![s] = "recognizing"]
                /\ call' = [call EXCEPT ![s] = Recognize(f)]
                /\ written' = [written EXCEPT ![s] = <<>>]
           ELSE /\ pc' = [pc EXCEPT ![s] = "lock_wait"]
                /\ call' = [call EXCEPT ![s] = NoCall]
                /\ written' = [written EXCEPT ![s] = <<>>]
                /\ UNCHANGED model_lock
    /\ UNCHANGED <<wav_dir, variant, models, request_language, wav_disk, heard, hint>>

\* A handler waiting in `async with self.model_lock` gets the lock and enters
\* recognize.
AcquireLock(s) ==
    /\ pc[s] = "lock_wait"
    /\ LoopFree
    /\ CanAcquire(model_lock)
    /\ model_lock' = TRUE
    /\ pc' = [pc EXCEPT ![s] = "recognizing"]
    /\ call' = [call EXCEPT ![s] = Recognize(frame[s])]
    /\ UNCHANGED <<wav_dir, variant, models, event, request_language, wav_file, wav_disk,
                   frame, written, ret, heard, hint>>

\* Events written once recognize has returned text.
SuccessWritesTwice(text) == <<Transcript(text), Transcript(text)>>
SuccessWrites(text) == <<Transcript(text)>>

\* recognize returns text: the `async with` block is left (lock released) and
\* the Transcript is being written.
RecognizeReturn(s, text) ==
    /\ pc[s] = "recognizing"
    /\ call' = [call EXCEPT ![s].result = "returned", ![s].text = text]
    /\ model_lock' = FALSE
    /\ written' = [written EXCEPT ![s] = SuccessWrites(text)]
    /\ pc' = [pc EXCEPT ![s] = "write_transcript"]
    /\ UNCHANGED <<wav_dir, variant, models, event, request_language, wav_file, wav_disk,
                   frame, ret, heard, hint>>

\* recognize raises e.  onnx: caught inside the `async with` block, the error
\* Transcript is being written with the lock still held.  nemo: no handler,
\* the exception leaves the block (lock released) and handle_event.
RecognizeRaise(s, e) ==
    /\ pc[s] = "recognizing"
    /\ call' = [call EXCEPT ![s].result = "raised", ![s].text = <<e>>]
    /\ IF variant = "onnx"
       THEN /\ written' = [written EXCEPT ![s] = <<Transcript(ErrorText(FailedMsg(e)))>>]
            /\ pc' = [pc EXCEPT ![s] = "write_error"]
            /\ UNCHANGED <<model_lock, ret, frame, heard, hint>>
       ELSE /\ model_lock' = FALSE
            /\ Leave(s, "Exception")
            /\ EndUtterance(s)
            /\ UNCHANGED written
    /\ UNCHANGED <<wav_dir, variant, models, event, request_language, wav_file, wav_disk>>

\* Value returned after the no-model error Transcript was written.
NoModelResultTrue == "True"
NoModelResult == "False"

\* The no-model error Transcript is written: return False (line 123).
NoModelReturn(s) ==
    /\ pc[s] = "write_nomodel"
    /\ LoopFree
    /\ Leave(s, NoModelResult)
    /\ EndUtterance(s)
    /\ UNCHANGED <<wav_dir, variant, models, model_lock, event, request_language, wav_file,
                   wav_disk, written, call>>

\* A return from the except branch that would leave the lock taken (for
\* comparison with ErrorReturn).
ErrorReturnKeepsLock(s) ==
    /\ pc[s] = "write_error"
    /\ LoopFree
    /\ Leave(s, "False")
    /\ EndUtterance(s)
    /\ UNCHANGED <<wav_dir, variant, models, model_lock, event, request_language,
                   wav_file, wav_disk, written, call>>

\* The inference-failure Transcript is written: return False from inside the
\* `async with` block, which releases the lock (line 142).
ErrorReturn(s) ==
    /\ pc[s] = "write_error"
    /\ LoopFree
    /\ model_lock' = FALSE
    /\ Leave(s, "False")
    /\ EndUtterance(s)
    /\ UNCHANGED <<wav_dir, variant, models, event, request_language, wav_file, wav_disk,
                   written, call>>

\* The Transcript is written: onnx resets self.request_language; return False.
TranscriptReturn(s) ==
    /\ pc[s] = "write_transcript"
    /\ LoopFree
    /\ request_language' = [request_language EXCEPT ![s] =
                              IF variant = "onnx" THEN NoneVal ELSE @]
    /\ Leave(s, "False")
    /\ EndUtterance(s)
    /\ UNCHANGED <<wav_dir, variant, models, model_lock, event, wav_file, wav_disk,
                   written, call>>

\* ----------------------------------------------------------------- close
\* A close that removes the directory only when a sink is open (for
\* comparison with Close).
CloseOnlyOpenSink(s) ==
    /\ variant = "onnx"
    /\ pc[s] = "idle"
    /\ LoopFree
    /\ event' = [event EXCEPT ![s] = "close"]
    /\ wav_file' = [wav_file EXCEPT ![s] = <<>>]
    /\ wav_dir' = [wav_dir EXCEPT ![s] = IF wav_file[s] # <<>> THEN <<>> ELSE @]
    /\ wav_disk' = [wav_disk EXCEPT ![s] = IF wav_file[s] # <<>> THEN <<>> ELSE @]
    /\ ret' = [ret EXCEPT ![s] = "None"]
    /\ written' = [written EXCEPT ![s] = <<>>]
    /\ call' = [call EXCEPT ![s] = NoCall]
    /\ frame' = [frame EXCEPT ![s] = NoFrame]
    /\ UNCHANGED <<variant, models, model_lock, pc, request_language, heard, hint>>

\* close() of the onnx handler, also reached through __exit__: an open sink
\* is closed and the handle unset; the temporary directory, if still there,
\* is removed with the file in it and the field unset.  The call returns
\* None.  The nemo handler has no close().
Close(s) ==
    /\ variant = "onnx"
    /\ pc[s] = "idle"
    /\ LoopFree
    /\ event' = [event EXCEPT ![s] = "close"]
    /\ wav_file' = [wav_file EXCEPT ![s] = IF @ # <<>> THEN <<>> ELSE @]
    /\ wav_dir' = [wav_dir EXCEPT ![s] = IF @ # <<>> THEN <<>> ELSE @]
    /\ wav_disk' = [wav_disk EXCEPT ![s] = IF wav_dir[s] # <<>> THEN <<>> ELSE @]
    /\ ret' = [ret EXCEPT ![s] = "None"]
    /\ written' = [written EXCEPT ![s] = <<>>]
    /\ call' = [call EXCEPT ![s] = NoCall]
    /\ frame' = [frame EXCEPT ![s] = NoFrame]
    /\ UNCHANGED <<variant, models, model_lock, pc, request_language, heard, hint>>

\* ------------------------------------------------------------------ Next
Next ==
    \/ \E s \in Sessions : \E c \in Chunks(s) :
            AudioChunkEvent(s, c.fmt, c.audio)
    \/ \E s \in Sessions : \E language \in TranscribeLanguages(s) :
            TranscribeEvent(s, language)
    \/ \E s \in FullClients : DescribeEvent(s)
    \/ \E s \in Sessions : DescribeReturn(s)
    \/ \E s \in FullClients : OtherEvent(s)
    \/ \E s \in Sessions, err \in NoSinkErrors : AudioStopNoSink(s, err)
    \/ \E s \in Sessions : AudioStopEvent(s)
    \/ \E s \in Sessions : AcquireLock(s)
    \/ \E s \in Sessions, text \in Texts : RecognizeReturn(s, text)
    \/ \E s \in Sessions, e \in Failures : RecognizeRaise(s, e)
    \/ \E s \in Sessions : NoModelReturn(s)
    \/ \E s \in Sessions : ErrorReturn(s)
    \/ \E s \in Sessions : TranscriptReturn(s)
    \/ \E s \in Sessions : Close(s)

Spec == Init /\ [][Next]_vars

\* Progress the runtime gives a handler that is inside handle_event: a
\* running recognize returns or raises; a client write that is under way
\* completes and the handler is resumed; a handler waiting for the lock gets
\* it at some moment when it is free (asyncio wakes lock waiters and ready
\* tasks in FIFO order, so none is overtaken for ever).  Clients are not
\* obliged to send anything.
Resume(s) ==
    \/ \E text \in Texts : RecognizeReturn(s, text)
    \/ \E e \in Failures : RecognizeRaise(s, e)
    \/ AcquireLock(s)
    \/ NoModelReturn(s)
    \/ ErrorReturn(s)
    \/ TranscriptReturn(s)
    \/ DescribeReturn(s)

Progress(s) == SF_vars(Resume(s))

\* Registries of the progress check, made for the onnx handler: one in which
\* every AudioStop finds a model and one in which none does (which model is
\* found does not bear on the lock).
LiveRegistries == { {}, {"en"} }

LiveInit == Init /\ variant = "onnx" /\ models \in LiveRegistries

FairSpec == LiveInit /\ [][Next]_vars /\ \A s \in Sessions : Progress(s)

\* =================================================================
\* Properties
\* =================================================================

\* Sessions whose handler is inside the AudioStop branch (sink closed, read
\* back, model decided; not yet returned).
InStop(s) == pc[s] \in {"write_nomodel", "lock_wait", "recognizing",
                        "write_error", "write_transcript"}

\* The latest call of s was an AudioStop that ran to its end and returned.
StopDone(s) == event[s] = "audio-stop" /\ pc[s] = "idle" /\ ret[s] \in {"True", "False"}

\* The payloads of a sequence of chunks, in order.
Payloads(h) == [i \in 1..Len(h) |-> h[i].audio]

Transcripts(w) == { i \in 1..Len(w) : w[i].type = "transcript" }

\* C1: at most one recognize call is in progress system-wide; every recognize
\* call is made by a session that holds model_lock, and no two sessions hold
\* the lock at once.
C1_OneRecognizeAtATime ==
    /\ Cardinality({ s \in Sessions : call[s].result = "running" }) <= 1
    /\ \A s \in Sessions : call[s].result = "running" => s \in Holders
    /\ Cardinality(Holders) <= 1
    /\ (Holders # {}) => model_lock

\* Two overlapping stops: one session holds the lock after its recognize call
\* while the other one waits for it.
C1_Witness ==
    \E s, t \in Sessions :
        /\ s # t
        /\ pc[s] = "write_error" /\ call[s].result = "raised"
        /\ pc[t] = "lock_wait"
        /\ model_lock

\* C2 (as claimed): once an AudioStop has been handled, whatever its outcome,
\* no requested language is pending any more: an utterance that follows
\* without a Transcribe uses the default language "en".
C2_LanguageResetAfterStop ==
    \A s \in Sessions :
        (variant = "onnx" /\ StopDone(s)) =>
            EffectiveLang(request_language[s]) = "en"

\* The model of the four-rule policy, with "unset" read as None only.
PolicyAsClaimed(language, keys) ==
    IF language \in {"en", NoneVal} /\ "en" \in keys THEN "en"
    ELSE IF "multi" \in keys THEN "multi"
    ELSE IF "en" \in keys THEN "en"
    ELSE NoneVal

\* The four-rule policy with rule (1) also covering the empty language.
PolicyAmended(language, keys) ==
    IF language \in {"en", NoneVal, ""} /\ "en" \in keys THEN "en"
    ELSE IF "multi" \in keys THEN "multi"
    ELSE IF "en" \in keys THEN "en"
    ELSE NoneVal

\* C3 (as claimed): the model chosen at AudioStop is the four-rule policy
\* applied to (requested language, registry keys), rule (1) applying when the
\* language is "en" or unset.
C3_SelectionAsClaimed ==
    \A s \in Sessions :
        (variant = "onnx" /\ InStop(s)) =>
            frame[s].model = PolicyAsClaimed(request_language[s], models)

\* C3 (amended): the model chosen at AudioStop is the four-rule policy applied
\* to (requested language, registry keys), rule (1) applying when the language
\* is "en", unset or the empty string; nothing else of the state matters.
C3_SelectionAmended ==
    \A s \in Sessions :
        (variant = "onnx" /\ InStop(s)) =>
            frame[s].model = PolicyAmended(request_language[s], models)

\* An AudioStop with the empty language pending and both an "en" and a
\* "multi" model: the "en" model is chosen.
C3_Witness ==
    \E s \in Sessions :
        /\ variant = "onnx" /\ InStop(s)
        /\ request_language[s] = "" /\ models = {"en", "multi"}
        /\ frame[s].model = "en"

\* C4 (as claimed): an AudioStop with no sink open raises no assertion or
\* other uncaught exception out of the handler.
C4_StopWithoutSinkRecoverable ==
    \A s \in Sessions : ret[s] \notin NoSinkErrors

\* C5 (as claimed): when recognize raised, the exception does not leave
\* handle_event, an error-tagged Transcript is emitted, and the lock is free
\* once the handler has returned.
C5_RecognizeFailureCaught ==
    \A s \in Sessions :
        call[s].result = "raised" =>
            /\ ret[s] # "Exception"
            /\ Len(written[s]) = 1
            /\ written[s][1].type = "transcript"
            /\ IsErrorText(written[s][1].text)
            /\ (pc[s] = "idle" => s \notin Holders /\ (Holders = {} => ~model_lock))

\* C6: every AudioStop handled with an open sink emits exactly one Transcript
\* and no other event kind emits one; its text is what recognize returned, or
\* an "ERROR:" text when no model was selected or recognize raised; with no
\* model selected recognize is not called and the lock is not taken.
C6_OneTranscriptPerStop ==
    \A s \in Sessions :
        variant = "onnx" =>
            /\ event[s] # "audio-stop" => Transcripts(written[s]) = {}
            /\ Len(written[s]) <= 1
            /\ (event[s] = "audio-stop" /\ pc[s] = "idle" /\ ret[s] \notin NoSinkErrors) =>
                  /\ ret[s] = "False"
                  /\ Transcripts(written[s]) = {1}
                  /\ IF call[s].result = "returned"
                     THEN written[s][1].text = call[s].text
                     ELSE IsErrorText(written[s][1].text)
            /\ (InStop(s) /\ frame[s].model = NoneVal) =>
                  /\ pc[s] = "write_nomodel"
                  /\ call[s].result = "none"
                  /\ s \notin Holders

\* An AudioStop answered with the text recognize returned.
C6_Witness ==
    \E s \in Sessions :
        /\ variant = "onnx" /\ StopDone(s)
        /\ call[s].result = "returned"
        /\ written[s] = <<Transcript(<<"hello world">>)>>

\* The latest call of s was an AudioStop that found no model.
NoModelOutcome(s) ==
    /\ variant = "onnx" /\ StopDone(s)
    /\ call[s].result = "none"

\* C7 (as claimed): after the no-model error Transcript the handler does not
\* signal the end of the session (it returns True, like the events that let
\* the session go on).
C7_NoModelSessionContinues ==
    \A s \in Sessions : NoModelOutcome(s) => ret[s] = "True"

\* C7 (amended): after the no-model error Transcript the handler raises
\* nothing and returns False, the completion signal of every handled
\* AudioStop, and is left idle with no sink, ready for a further turn.
C7_NoModelRecoverable ==
    \A s \in Sessions :
        NoModelOutcome(s) =>
            /\ ret[s] = "False"
            /\ Transcripts(written[s]) = {1} /\ IsErrorText(written[s][1].text)
            /\ wav_file[s] = <<>>

\* A no-model AudioStop for a requested language has been answered.
C7_Witness ==
    \E s \in Sessions :
        /\ NoModelOutcome(s)
        /\ request_language[s] = "fr"
        /\ IsErrorText(written[s][1].text)

\* C8: the audio read back from the finalized sink at an AudioStop is the
\* concatenation, in arrival order, of the payloads of exactly the chunks
\* received since the sink was opened (none of an earlier utterance).
C8_RoundTrip ==
    \A s \in Sessions :
        InStop(s) => Concat(frame[s].frames) = Concat(Payloads(heard[s]))

\* A stop after two different chunks.
C8_Witness ==
    \E s \in Sessions :
        /\ InStop(s)
        /\ Len(heard[s]) = 2 /\ heard[s][1].audio # heard[s][2].audio
        /\ Len(Concat(frame[s].frames)) = 4

\* C9: a Describe, in any session state, writes the info event fixed at
\* construction and returns True without changing the sink handle, the
\* buffered audio, the pending language or the lock.
C9_DescribeChangesNothing ==
    [][\A s \in Sessions :
          (event'[s] = "describe" /\ pc'[s] # pc[s]) =>
              /\ written'[s] = <<wyoming_info_event>>
              /\ pc'[s] = "idle" => ret'[s] = "True"
              /\ wav_file'[s] = wav_file[s]
              /\ wav_disk'[s] = wav_disk[s]
              /\ request_language'[s] = request_language[s]
              /\ model_lock' = model_lock]_vars

\* A Describe is being answered while the session buffers audio with a
\* language pending.
C9_Witness ==
    \E s \in Sessions :
        /\ pc[s] = "write_info"
        /\ wav_file[s] # <<>>
        /\ Truthy(request_language[s])
        /\ written[s] = <<wyoming_info_event>>

\* C10 (as claimed): the language given to recognize is the one recorded by
\* the latest Transcribe since the previous AudioStop, or "en" if there was
\* none (or it carried no language).
C10_LanguageOfLatestTranscribe ==
    \A s \in Sessions :
        (variant = "onnx" /\ pc[s] = "recognizing") =>
            call[s].language =
                IF hint[s] # <<>> /\ Truthy(hint[s][1]) THEN hint[s][1] ELSE "en"

\* C11 (as claimed): on every path the lock has been released by the time the
\* session's Transcript is handed to the client, i.e. no session writes to
\* its client while it holds the lock.
C11_NoWriteUnderLock ==
    \A s \in Sessions : s \in Holders => written[s] = <<>>

\* C12: once an AudioStop that found an open sink has got past the close, on
\* every outcome (success, no model, recognize failure) the sink handle is
\* unset, and the next AudioChunk of the session opens a fresh sink that
\* holds that chunk alone.
C12_SinkUnsetAfterStop ==
    [][\A s \in Sessions :
          /\ (event'[s] = "audio-stop" /\ ret'[s] \in {"pending", "False", "Exception"})
                => wav_file'[s] = <<>>
          /\ (event[s] = "audio-stop" /\ ret[s] \in {"False", "Exception"}
                /\ event'[s] = "audio-chunk")
                => /\ wav_file'[s] # <<>>
                   /\ Len(heard'[s]) = 1
                   /\ wav_disk'[s][1].fmt = heard'[s][1].fmt
                   /\ wav_disk'[s][1].data = heard'[s][1].audio]_vars

\* A chunk has opened a new sink after an AudioStop that ended in an error
\* Transcript (the language "fr" of the earlier utterance is still pending,
\* which only the error outcomes leave behind): the file holds that chunk only.
C12_Witness ==
    \E s \in Sessions :
        /\ event[s] = "audio-chunk"
        /\ wav_file[s] # <<>>
        /\ Len(heard[s]) = 1
        /\ wav_disk[s][1].data = heard[s][1].audio
        /\ request_language[s] = "fr"
        /\ hint[s] = <<>>

\* C13: a sink is opened only when the session has none open, with the
\* format of the chunk that opens it; while it is open every later chunk is
\* appended to the same file and leaves its configuration alone, also when
\* the chunk announces a different format; the format read back at the
\* AudioStop is that of the first chunk.
C13_SinkConfiguredByFirstChunk ==
    \A s \in Sessions :
        /\ wav_file[s] # <<>> =>
              /\ heard[s] # <<>>
              /\ wav_file[s][1] = heard[s][1].fmt
              /\ wav_disk[s][1].fmt = heard[s][1].fmt
              /\ wav_disk[s][1].data = Concat(Payloads(heard[s]))
        /\ InStop(s) => frame[s].sample_rate = heard[s][1].fmt.rate

\* A sink that has taken a second chunk whose format differs from the first.
C13_Witness ==
    \E s \in Sessions :
        /\ wav_file[s] # <<>>
        /\ Len(heard[s]) = 2
        /\ heard[s][2].fmt # heard[s][1].fmt
        /\ wav_disk[s][1].fmt = heard[s][1].fmt

C15_CloseRemovesStorage ==
    \A s \in Sessions :
        /\ event[s] = "close" =>
              /\ wav_file[s] = <<>>
              /\ wav_dir[s] = <<>>
              /\ wav_disk[s] = <<>>
              /\ ret[s] = "None"
              /\ LoopFree => ENABLED Close(s)
              /\ ~ENABLED <<Close(s)>>_vars
        /\ wav_dir[s] = <<>> => event[s] = "close"

\* A handler closed while its sink was open with two chunks in it.
C15_Witness ==
    \E s \in Sessions :
        /\ event[s] = "close"
        /\ Len(heard[s]) = 2
        /\ wav_disk[s] = <<>>

\* A handler closed without any chunk since the last AudioStop.
C15_WitnessNoSink ==
    \E s \in Sessions :
        /\ event[s] = "close"
        /\ heard[s] = <<>>
        /\ wav_dir[s] = <<>>

\* Everything a session's handler object and its current call hold.
Local(s) ==
    <<pc[s], event[s], ret[s], written[s], call[s], frame[s], heard[s], hint[s],
      wav_file[s], wav_disk[s], wav_dir[s], request_language[s]>>

\* The waveform recognize gets from a sink opened by the first chunk of h and
\* holding the payloads of h.
OwnWaveform(h) ==
    Mono(SfRead(Some([fmt |-> h[1].fmt, data |-> Concat(Payloads(h))])).frames)

\* C16: sessions share no audio state: no step (chunk, stop, close or any
\* other) changes the sink, the file, the directory or the pending language
\* of more than the one session that takes it, and the samples given to
\* recognize at a session's AudioStop are made of that session's own chunks
\* since its previous AudioStop, whatever the other session has buffered.
C16_SessionsIsolated ==
    [][/\ \A s, t \in Sessions :
            s # t => (Local(s)' = Local(s) \/ Local(t)' = Local(t))
       /\ \A s \in Sessions :
            call'[s].result = "running" =>
                /\ heard'[s] # <<>>
                /\ call'[s].samples = OwnWaveform(heard'[s])
                /\ call'[s].sample_rate = heard'[s][1].fmt.rate]_vars

\* One session's recognize call runs on its own audio while the other has
\* an open sink holding different audio.
C16_Witness ==
    \E s, t \in Sessions :
        /\ s # t
        /\ call[s].result = "running"
        /\ call[s].samples = OwnWaveform(heard[s])
        /\ wav_file[t] # <<>>
        /\ wav_disk[t][1].data # wav_disk[s][1].data

\* C18: only the registry entries under the keys "en" and "multi" are ever
\* selected or called; an entry under any other key is never used, also when
\* the requested language equals that key; and with a registry holding
\* neither "en" nor "multi" every AudioStop with an open sink ends in the
\* no-model error Transcript without any recognize call.
C18_OnlyEnAndMultiSelectable ==
    \A s \in Sessions :
        variant = "onnx" =>
            /\ InStop(s) =>
                  frame[s].model \in (({"en", "multi"} \cap models) \cup {NoneVal})
            /\ call[s].result # "none" => call[s].model \in {"en", "multi"} \cap models
            /\ (models \cap {"en", "multi"} = {} /\ event[s] = "audio-stop"
                    /\ ret[s] \in {"pending", "True", "False"}) =>
                  /\ call[s].result = "none"
                  /\ pc[s] \in {"write_nomodel", "idle"}
                  /\ Len(written[s]) = 1
                  /\ written[s][1] =
                        Transcript(ErrorText(NoModelMsg(request_language[s], models)))

\* The registry holds a model under "fr" only, the client asked for "fr",
\* and the AudioStop is answering with the no-model error.
C18_Witness ==
    \E s \in Sessions :
        /\ variant = "onnx" /\ models = {"fr"}
        /\ request_language[s] = "fr"
        /\ pc[s] = "write_nomodel"
        /\ frame[s].lang = "fr" /\ frame[s].model = NoneVal
        /\ IsErrorText(written[s][1].text)

\* C19: the language argument of every recognize call of the onnx handler is
\* the session's pending language when there is a non-empty one and "en"
\* otherwise, whichever model was selected: with "fr" pending and the
\* registry {"en"} the "en" model is called with "fr"; with nothing pending
\* and the registry {"multi"} the "multi" model is called with "en".
C19_LanguageArgument ==
    \A s \in Sessions :
        (variant = "onnx" /\ pc[s] \in {"recognizing", "write_error", "write_transcript"}) =>
            /\ call[s].result # "none"
            /\ call[s].language =
                  IF request_language[s] \notin {NoneVal, ""}
                  THEN request_language[s] ELSE "en"
            /\ (request_language[s] = "fr" /\ models = {"en"}) =>
                  (call[s].model = "en" /\ call[s].language = "fr")
            /\ (request_language[s] = NoneVal /\ models = {"multi"}) =>
                  (call[s].model = "multi" /\ call[s].language = "en")

\* The fallback case: "fr" is pending, the registry is {"en"}, and the "en"
\* model's recognize is running with language "fr".
C19_Witness ==
    \E s \in Sessions :
        /\ variant = "onnx" /\ models = {"en"}
        /\ request_language[s] = "fr"
        /\ pc[s] = "recognizing"
        /\ call[s].model = "en" /\ call[s].language = "fr"

\* C20: under FairSpec the lock never stays taken: a taken lock is
\* eventually free again, and every session whose AudioStop found an open
\* sink eventually leaves handle_event with False, having written exactly
\* one Transcript (the text or an error) in that call.
C20_NoDeadlockOnLock ==
    /\ model_lock ~> ~model_lock
    /\ \A s \in Sessions :
          InStop(s) ~> (/\ pc[s] = "idle"
                        /\ event[s] = "audio-stop"
                        /\ ret[s] = "False"
                        /\ Cardinality(Transcripts(written[s])) = 1)

\* Both sessions are inside their AudioStop at once: one holds the lock at
\* its error write, the other waits for the lock.
C20_Witness ==
    \E s, t \in Sessions :
        /\ pc[s] = "write_error" /\ model_lock
        /\ pc[t] = "lock_wait"

====
